---------------------------- MODULE Spec2Model ----------------------------
(***************************************************************************)
(* Model of scan.py (filesystem_audit): main, collect_file_metadata,       *)
(* get_mount_points and should_skip_path.                                  *)
(*                                                                         *)
(* A path is kept in two forms, as the program does: the walker's          *)
(* position in the tree is a tuple of entry names, and the string that     *)
(* os.path.join builds from it is a sequence of characters.  Mount points  *)
(* are strings, and should_skip_path compares strings with startswith.     *)
(* Entry names are valid text; timestamps are not modelled.                *)
(***************************************************************************)
EXTENDS Integers, Sequences, FiniteSets, TLC

\* ------------------------------------------------------------------ bounds
\* chunk_size ranges over 1..MaxChunk
MaxChunk == 2
\* at most this many entries of the tree are faulty (unresolvable, failing
\* lstat, or not a regular file)
MaxFaulty == 1
\* at most this many batch writes / flushes inside the walk loop fail
MaxWriteFailures == 1

\* ------------------------------------------------------------ the fixture
\*   /a/f1 (100 B)   /a/b/f2 (50 B)   /n/f3   /n/x/f4   /nd/f5
\* /n and /n/x are places where a filesystem may be mounted; /nd is a plain
\* directory whose name starts with the characters of /n.
Root == <<>>

Dirs == { Root, <<"a">>, <<"a", "b">>, <<"n">>, <<"n", "x">>, <<"nd">> }

Files == { <<"a", "f1">>, <<"a", "b", "f2">>, <<"n", "f3">>,
           <<"n", "x", "f4">>, <<"nd", "f5">> }

\* the sub-directories of d in the order scandir lists them
Subdirs(d) ==
    CASE d = Root      -> << <<"a">>, <<"n">>, <<"nd">> >>
      [] d = <<"a">>   -> << <<"a", "b">> >>
      [] d = <<"n">>   -> << <<"n", "x">> >>
      [] OTHER         -> << >>

\* the non-directory entries of d in the order scandir lists them
FilesIn(d) ==
    CASE d = <<"a">>        -> << <<"a", "f1">> >>
      [] d = <<"a", "b">>   -> << <<"a", "b", "f2">> >>
      [] d = <<"n">>        -> << <<"n", "f3">> >>
      [] d = <<"n", "x">>   -> << <<"n", "x", "f4">> >>
      [] d = <<"nd">>       -> << <<"nd", "f5">> >>
      [] OTHER              -> << >>

\* st.st_size of a file
SizeOf(f) ==
    CASE f = <<"a", "f1">>       -> 100
      [] f = <<"a", "b", "f2">>  -> 50
      [] f = <<"n", "f3">>       -> 1000
      [] f = <<"n", "x", "f4">>  -> 7
      [] OTHER                   -> 3

\* the characters of an entry name
NameChars(name) ==
    CASE name = "nd" -> <<"n", "d">>
      [] name = "f1" -> <<"f", "1">>
      [] name = "f2" -> <<"f", "2">>
      [] name = "f3" -> <<"f", "3">>
      [] name = "f4" -> <<"f", "4">>
      [] name = "f5" -> <<"f", "5">>
      [] OTHER       -> <<name>>

Front(s) == SubSeq(s, 1, Len(s) - 1)

Last(s) == s[Len(s)]

\* os.path.join(a, b) for a relative b: a separator is added unless a
\* already ends with one
PathJoin(a, b) ==
    IF a # << >> /\ Last(a) = "/" THEN a \o b ELSE a \o <<"/">> \o b

\* the string os.walk and os.path.join build for a tree position, starting
\* from root_path = '/'
RECURSIVE JoinedPath(_)
JoinedPath(p) ==
    IF p = Root THEN <<"/">>
    ELSE PathJoin(JoinedPath(Front(p)), NameChars(Last(p)))

\* the same strings, built once for every position of the fixture
PathTable == [p \in Dirs \cup Files |-> JoinedPath(p)]

PathStr(p) == PathTable[p]

\* --------------------------------------------------------------- the state
VARIABLES
    procMounts,     \* the lines of /proc/mounts, each split into its fields
    mountsReadable, \* whether /proc/mounts can be opened
    unresolvable,   \* tree positions whose Path.resolve() raises
    lstatFails,     \* files whose os.lstat raises OSError
    nonRegular,     \* entries that are not regular files (symlink, device)
    chunk_size,     \* --chunk-size
    pc,             \* position in main / collect_file_metadata
    mount_info,     \* the dictionary get_mount_points returned
    stack,          \* directories os.walk has still to yield
    dirpath,        \* the directory os.walk yielded last
    dirnames,       \* its sub-directories, as the loop body left them
    filenames,      \* its entries still to be looked at
    filepath,       \* the entry being processed
    buffer,         \* the list of records not yet cleared
    file_count,
    output,         \* the writerows calls that reached the file, in order,
                    \* each the sequence of rows it wrote
    appended,       \* history: every record buffer.append received, in order
    interrupted,    \* "no", or where the KeyboardInterrupt arrived
    writeFailures,  \* failed batch writes / flushes inside the walk loop
    exitStatus      \* the process exit status, once pc = "exit"

vars == << procMounts, mountsReadable, unresolvable, lstatFails, nonRegular,
           chunk_size, pc, mount_info, stack, dirpath, dirnames, filenames,
           filepath, buffer, file_count, output, appended, interrupted,
           writeFailures, exitStatus >>

inputs == << procMounts, mountsReadable, unresolvable, lstatFails,
             nonRegular, chunk_size >>

walkVars == << stack, dirpath, dirnames, filenames, filepath >>

\* ------------------------------------------------------ mount classifier
SKIP_FS_TYPES ==
    { "proc", "sysfs", "devtmpfs", "tmpfs", "devpts", "cgroup", "cgroup2",
      "pstore", "efivarfs", "bpf", "securityfs", "debugfs", "tracefs",
      "fusectl", "mqueue", "hugetlbfs", "autofs", "overlay",
      "nfs", "nfs4", "cifs", "smb3", "smbfs", "fuse.sshfs", "glusterfs",
      "lustre", "9p", "afs" }

EmptyMounts == [mp \in {} |-> "none"]

\* mounts[mount_point] = fs_type
SetMount(mounts, mp, t) ==
    [k \in (DOMAIN mounts) \cup {mp} |-> IF k = mp THEN t ELSE mounts[k]]

\* the loop over the lines of /proc/mounts: a line of fewer than three
\* fields is passed over, a later line for a mount point replaces an
\* earlier one
RECURSIVE ParseMounts(_, _)
ParseMounts(lines, mounts) ==
    IF lines = << >> THEN mounts
    ELSE LET parts == Head(lines) IN
         IF Len(parts) < 3 THEN ParseMounts(Tail(lines), mounts)
         ELSE ParseMounts(Tail(lines), SetMount(mounts, parts[2], parts[3]))

\* get_mount_points(): a failure to read leaves the dictionary empty
get_mount_points(lines, readable) ==
    IF readable THEN ParseMounts(lines, EmptyMounts) ELSE EmptyMounts

\* str.startswith
StartsWith(s, prefix) ==
    /\ Len(prefix) <= Len(s)
    /\ SubSeq(s, 1, Len(prefix)) = prefix

ResolveFailed == <<"!">>

\* Path(path_str).resolve(): the walk starts at '/' and follows no links,
\* so a path that resolves at all resolves to the string it already is
Resolve(path_str) ==
    IF \E p \in unresolvable : PathStr(p) = path_str
    THEN ResolveFailed ELSE path_str

\* max(matching_mounts, key=len)
LongestMount(matching) ==
    CHOOSE mp \in matching : \A o \in matching : Len(o) <= Len(mp)

\* should_skip_path with the resolution failure classified scannable
should_skip_path_FailOpen(path_str, mounts) ==
    LET resolved == Resolve(path_str)
        matching_mounts == { mp \in DOMAIN mounts : StartsWith(resolved, mp) }
    IN  IF resolved = ResolveFailed THEN FALSE
        ELSE IF matching_mounts = {} THEN FALSE
        ELSE mounts[LongestMount(matching_mounts)] \in SKIP_FS_TYPES

should_skip_path(path_str, mounts) ==
    LET resolved == Resolve(path_str)
        matching_mounts == { mp \in DOMAIN mounts : StartsWith(resolved, mp) }
    IN  IF resolved = ResolveFailed THEN TRUE
        ELSE IF matching_mounts = {} THEN FALSE
        ELSE mounts[LongestMount(matching_mounts)] \in SKIP_FS_TYPES

\* ------------------------------------------------------------------ Init
MountLine(p, t) == << <<"d", "e", "v">>, PathStr(p), t >>

\* the mount tables: the root filesystem, then optionally something
\* mounted on /n and on /n/x, then a malformed line
ProcMountTables ==
    { << MountLine(Root, r) >> \o n \o x \o << << <<"n", "o", "n", "e">> >> >> :
        r \in {"ext4", "overlay"},
        n \in { << >>, << MountLine(<<"n">>, "ext4") >>,
                       << MountLine(<<"n">>, "nfs") >> },
        x \in { << >>, << MountLine(<<"n", "x">>, "ext4") >> } }

\* what /proc/mounts holds in the runs where it cannot be opened
UnreadMounts ==
    << MountLine(Root, "ext4"), MountLine(<<"n">>, "nfs") >>

\* the entries whose resolution may fail: a directory with a subtree, a
\* leaf directory, and two files
MayNotResolve == { <<"a">>, <<"nd">>, <<"a", "b", "f2">>, <<"n", "x", "f4">> }

AtMost(S, k) == { x \in SUBSET S : Cardinality(x) <= k }

Init ==
    /\ unresolvable \in AtMost(MayNotResolve, MaxFaulty)
    /\ lstatFails \in AtMost(Files, MaxFaulty)
    /\ nonRegular \in AtMost(Files, MaxFaulty)
    /\ Cardinality(unresolvable) + Cardinality(lstatFails)
         + Cardinality(nonRegular) <= MaxFaulty
    /\ \/ mountsReadable = TRUE /\ procMounts \in ProcMountTables
       \/ mountsReadable = FALSE /\ procMounts = UnreadMounts
    /\ chunk_size \in 1..MaxChunk
    /\ pc = "main"
    /\ mount_info = EmptyMounts
    /\ stack = << >>
    /\ dirpath = Root
    /\ dirnames = << >>
    /\ filenames = << >>
    /\ filepath = Root
    /\ buffer = << >>
    /\ file_count = 0
    /\ output = << >>
    /\ appended = << >>
    /\ interrupted = "no"
    /\ writeFailures = 0
    /\ exitStatus = 0


\* ------------------------------------------------------------------ main
\* main(): a caller that is not root gets exit status 1 before any scan
Main ==
    /\ pc = "main"
    /\ \E euid \in {0, 1000} :
         IF euid # 0
         THEN pc' = "exit" /\ exitStatus' = 1
         ELSE pc' = "mounts" /\ exitStatus' = exitStatus
    /\ UNCHANGED << inputs, mount_info, walkVars, buffer, file_count, output,
                    appended, interrupted, writeFailures >>

\* mount_info = get_mount_points()
GetMounts ==
    /\ pc = "mounts"
    /\ mount_info' = get_mount_points(procMounts, mountsReadable)
    /\ pc' = "open"
    /\ UNCHANGED << inputs, walkVars, buffer, file_count, output, appended,
                    interrupted, writeFailures, exitStatus >>

\* open(csv_path, 'w') and writeheader(); buffer = [], file_count = 0;
\* os.walk(root_path) is started
OpenCsv ==
    /\ pc = "open"
    /\ stack' = << Root >>
    /\ buffer' = << >>
    /\ file_count' = 0
    /\ pc' = "walk"
    /\ UNCHANGED << inputs, mount_info, dirpath, dirnames, filenames, filepath,
                    output, appended, interrupted, writeFailures, exitStatus >>

\* the output cannot be created: the OSError leaves main uncaught
OpenCsvFails ==
    /\ pc = "open"
    /\ pc' = "exit"
    /\ exitStatus' = 1
    /\ UNCHANGED << inputs, mount_info, walkVars, buffer, file_count, output,
                    appended, interrupted, writeFailures >>

\* -------------------------------------------------------------- the walk
\* os.walk(topdown=True) yields the next directory: the sub-directories
\* the loop body left in dirnames are visited before the older ones
WalkNext ==
    /\ pc = "walk"
    /\ dirnames \o stack # << >>
    /\ LET todo == dirnames \o stack IN
         /\ dirpath' = Head(todo)
         /\ stack' = Tail(todo)
         /\ dirnames' = Subdirs(Head(todo))
         /\ filenames' = FilesIn(Head(todo))
    /\ pc' = "dir"
    /\ UNCHANGED << inputs, mount_info, filepath, buffer, file_count, output,
                    appended, interrupted, writeFailures, exitStatus >>

\* os.walk is exhausted: the for loop and the try block end
WalkEnd ==
    /\ pc = "walk"
    /\ dirnames \o stack = << >>
    /\ pc' = "final"
    /\ UNCHANGED << inputs, mount_info, walkVars, buffer, file_count, output,
                    appended, interrupted, writeFailures, exitStatus >>

\* PruneDir without dirnames[:] = []
PruneDir_KeepsSubdirs ==
    /\ pc = "dir"
    /\ should_skip_path(PathStr(dirpath), mount_info)
    /\ filenames' = << >>
    /\ pc' = "walk"
    /\ UNCHANGED << inputs, mount_info, stack, dirpath, dirnames, filepath,
                    buffer, file_count, output, appended, interrupted,
                    writeFailures, exitStatus >>

\* if should_skip_path(dirpath, mount_info): dirnames[:] = []; continue
PruneDir ==
    /\ pc = "dir"
    /\ should_skip_path(PathStr(dirpath), mount_info)
    /\ dirnames' = << >>
    /\ filenames' = << >>
    /\ pc' = "walk"
    /\ UNCHANGED << inputs, mount_info, stack, dirpath, filepath, buffer,
                    file_count, output, appended, interrupted, writeFailures,
                    exitStatus >>

EnterDir ==
    /\ pc = "dir"
    /\ ~ should_skip_path(PathStr(dirpath), mount_info)
    /\ pc' = "files"
    /\ UNCHANGED << inputs, mount_info, walkVars, buffer, file_count, output,
                    appended, interrupted, writeFailures, exitStatus >>

\* for filename in filenames: filepath = os.path.join(dirpath, filename)
NextFile ==
    /\ pc = "files"
    /\ filenames # << >>
    /\ filepath' = Head(filenames)
    /\ filenames' = Tail(filenames)
    /\ pc' = "lstat"
    /\ UNCHANGED << inputs, mount_info, stack, dirpath, dirnames, buffer,
                    file_count, output, appended, interrupted, writeFailures,
                    exitStatus >>

FilesDone ==
    /\ pc = "files"
    /\ filenames = << >>
    /\ pc' = "walk"
    /\ UNCHANGED << inputs, mount_info, walkVars, buffer, file_count, output,
                    appended, interrupted, writeFailures, exitStatus >>

\* LstatError with the handler outside the loop over the entries
LstatError_Aborts ==
    /\ pc = "lstat"
    /\ filepath \in lstatFails
    /\ pc' = "final"
    /\ UNCHANGED << inputs, mount_info, walkVars, buffer, file_count, output,
                    appended, interrupted, writeFailures, exitStatus >>

\* os.lstat(filepath) raises OSError: except (OSError, IOError): continue
LstatError ==
    /\ pc = "lstat"
    /\ filepath \in lstatFails
    /\ pc' = "files"
    /\ UNCHANGED << inputs, mount_info, walkVars, buffer, file_count, output,
                    appended, interrupted, writeFailures, exitStatus >>

\* if not stat.S_ISREG(st.st_mode): continue
NotRegular ==
    /\ pc = "lstat"
    /\ filepath \notin lstatFails
    /\ filepath \in nonRegular
    /\ pc' = "files"
    /\ UNCHANGED << inputs, mount_info, walkVars, buffer, file_count, output,
                    appended, interrupted, writeFailures, exitStatus >>

\* if should_skip_path(filepath, mount_info): continue
SkipFile ==
    /\ pc = "lstat"
    /\ filepath \notin lstatFails
    /\ filepath \notin nonRegular
    /\ should_skip_path(PathStr(filepath), mount_info)
    /\ pc' = "files"
    /\ UNCHANGED << inputs, mount_info, walkVars, buffer, file_count, output,
                    appended, interrupted, writeFailures, exitStatus >>

\* Record with the size left out
Record_NoSize(f) == [path |-> PathStr(f), size_bytes |-> 0]

\* the dictionary appended to the buffer
Record(f) == [path |-> PathStr(f), size_bytes |-> SizeOf(f)]

\* buffer.append({...})
AppendRecord ==
    /\ pc = "lstat"
    /\ filepath \notin lstatFails
    /\ filepath \notin nonRegular
    /\ ~ should_skip_path(PathStr(filepath), mount_info)
    /\ buffer' = Append(buffer, Record(filepath))
    /\ appended' = Append(appended, Record(filepath))
    /\ pc' = "count"
    /\ UNCHANGED << inputs, mount_info, walkVars, file_count, output,
                    interrupted, writeFailures, exitStatus >>

\* BufferFull with > for >=
BufferFull_Strict(buf, n) == Len(buf) > n

\* if len(buffer) >= chunk_size
BufferFull(buf, n) == Len(buf) >= n

\* file_count += 1, then the test of the buffer's length
CountFile ==
    /\ pc = "count"
    /\ file_count' = file_count + 1
    /\ pc' = IF BufferFull(buffer, chunk_size) THEN "write" ELSE "files"
    /\ UNCHANGED << inputs, mount_info, walkVars, buffer, output, appended,
                    interrupted, writeFailures, exitStatus >>

\* writer.writerows(buffer)
WriteBatch ==
    /\ pc = "write"
    /\ output' = Append(output, buffer)
    /\ pc' = "flush"
    /\ UNCHANGED << inputs, mount_info, walkVars, buffer, file_count, appended,
                    interrupted, writeFailures, exitStatus >>

\* the rows a writerows call got out before it was cut short
Partial(out, buf, k) ==
    IF k = 0 THEN out ELSE Append(out, SubSeq(buf, 1, k))

\* writer.writerows(buffer) raises OSError after k rows: the handler of
\* the per-file try block catches it and the loop goes to the next entry
WriteBatchFails ==
    /\ pc = "write"
    /\ writeFailures < MaxWriteFailures
    /\ \E k \in 0..Len(buffer) : output' = Partial(output, buffer, k)
    /\ writeFailures' = writeFailures + 1
    /\ pc' = "files"
    /\ UNCHANGED << inputs, mount_info, walkVars, buffer, file_count, appended,
                    interrupted, exitStatus >>

\* csvfile.flush()
FlushBatch ==
    /\ pc = "flush"
    /\ pc' = "clear"
    /\ UNCHANGED << inputs, mount_info, walkVars, buffer, file_count, output,
                    appended, interrupted, writeFailures, exitStatus >>

\* csvfile.flush() raises OSError: caught by the same handler
FlushBatchFails ==
    /\ pc = "flush"
    /\ writeFailures < MaxWriteFailures
    /\ writeFailures' = writeFailures + 1
    /\ pc' = "files"
    /\ UNCHANGED << inputs, mount_info, walkVars, buffer, file_count, output,
                    appended, interrupted, exitStatus >>

\* buffer.clear() and the progress line
ClearBuffer ==
    /\ pc = "clear"
    /\ buffer' = << >>
    /\ pc' = "files"
    /\ UNCHANGED << inputs, mount_info, walkVars, file_count, output, appended,
                    interrupted, writeFailures, exitStatus >>

\* the positions inside the try block of collect_file_metadata
TryBlock == { "walk", "dir", "files", "lstat", "count", "write", "flush",
              "clear" }

\* KeyboardInterrupt inside the try block: the message is printed and
\* control passes to the final write
Interrupt ==
    /\ pc \in TryBlock
    /\ interrupted = "no"
    /\ interrupted' = "walk"
    /\ pc' = "final"
    /\ UNCHANGED << inputs, mount_info, walkVars, buffer, file_count, output,
                    appended, writeFailures, exitStatus >>

\* KeyboardInterrupt while writerows is under way, k rows out
InterruptDuringWrite ==
    /\ pc = "write"
    /\ interrupted = "no"
    /\ \E k \in 1..Len(buffer) : output' = Partial(output, buffer, k)
    /\ interrupted' = "walk"
    /\ pc' = "final"
    /\ UNCHANGED << inputs, mount_info, walkVars, buffer, file_count, appended,
                    writeFailures, exitStatus >>

\* if buffer: writer.writerows(buffer); the with block ends and the
\* function returns csv_path to main
FinalWrite ==
    /\ pc = "final"
    /\ output' = IF buffer # << >> THEN Append(output, buffer) ELSE output
    /\ pc' = "viz"
    /\ UNCHANGED << inputs, mount_info, walkVars, buffer, file_count, appended,
                    interrupted, writeFailures, exitStatus >>

\* the final writerows raises OSError: nothing catches it
FinalWriteFails ==
    /\ pc = "final"
    /\ buffer # << >>
    /\ \E k \in 0..Len(buffer) : output' = Partial(output, buffer, k)
    /\ pc' = "exit"
    /\ exitStatus' = 1
    /\ UNCHANGED << inputs, mount_info, walkVars, buffer, file_count, appended,
                    interrupted, writeFailures >>

\* KeyboardInterrupt during the final write, outside the try block
FinalWriteInterrupted ==
    /\ pc = "final"
    /\ buffer # << >>
    /\ interrupted = "no"
    /\ \E k \in 0..Len(buffer) : output' = Partial(output, buffer, k)
    /\ interrupted' = "final"
    /\ pc' = "exit"
    /\ exitStatus' = 130
    /\ UNCHANGED << inputs, mount_info, walkVars, buffer, file_count, appended,
                    writeFailures >>

\* if not args.no_viz: create_visualization(csv_path)
Visualize ==
    /\ pc = "viz"
    /\ \E no_viz \in BOOLEAN : pc' = "report"
    /\ UNCHANGED << inputs, mount_info, walkVars, buffer, file_count, output,
                    appended, interrupted, writeFailures, exitStatus >>

\* print("[INFO] Done.") and the end of main
ReportDone ==
    /\ pc = "report"
    /\ pc' = "exit"
    /\ exitStatus' = 0
    /\ UNCHANGED << inputs, mount_info, walkVars, buffer, file_count, output,
                    appended, interrupted, writeFailures >>

Next ==
    \/ Main
    \/ GetMounts
    \/ OpenCsv
    \/ OpenCsvFails
    \/ WalkNext
    \/ WalkEnd
    \/ PruneDir
    \/ EnterDir
    \/ NextFile
    \/ FilesDone
    \/ LstatError
    \/ NotRegular
    \/ SkipFile
    \/ AppendRecord
    \/ CountFile
    \/ WriteBatch
    \/ WriteBatchFails
    \/ FlushBatch
    \/ FlushBatchFails
    \/ ClearBuffer
    \/ Interrupt
    \/ InterruptDuringWrite
    \/ FinalWrite
    \/ FinalWriteFails
    \/ FinalWriteInterrupted
    \/ Visualize
    \/ ReportDone

Spec == Init /\ [][Next]_vars

\* ------------------------------------------------- vocabulary of the claims
RECURSIVE Flatten(_)
Flatten(batches) ==
    IF batches = << >> THEN << >>
    ELSE Head(batches) \o Flatten(Tail(batches))

\* the rows of the output file, in file order
Rows == Flatten(output)

RECURSIVE SumSizes(_)
SumSizes(rows) ==
    IF rows = << >> THEN 0
    ELSE Head(rows).size_bytes + SumSizes(Tail(rows))

Occurrences(rows, r) == Cardinality({ i \in 1..Len(rows) : rows[i] = r })

\* tree position d is a proper ancestor of tree position p
Under(p, d) == Len(d) < Len(p) /\ SubSeq(p, 1, Len(d)) = d

\* collect_file_metadata has returned to main
Returned == pc \in {"viz", "report"} \/ (pc = "exit" /\ exitStatus = 0)

\* ... after a walk that no interrupt cut short and whose writes all succeeded
CleanReturn == Returned /\ interrupted = "no" /\ writeFailures = 0

\* get_mount_points has been called
MountsTaken == pc \notin {"main", "mounts"}

\* the walker reaches d: it prunes none of d's ancestors, nor d
Visited(d) ==
    \A a \in Dirs :
        (a = d \/ Under(d, a)) => ~ should_skip_path(PathStr(a), mount_info)

\* f is a regular file the walk reaches, can stat, and classifies scannable
Accepted(f) ==
    /\ f \notin lstatFails
    /\ f \notin nonRegular
    /\ Visited(Front(f))
    /\ ~ should_skip_path(PathStr(f), mount_info)

\* the longest mount point that is a prefix of d's resolved path has a type
\* in SKIP_FS_TYPES
ExcludedDir(d) ==
    LET str == PathStr(d)
        prefixes == { mp \in DOMAIN mount_info : StartsWith(str, mp) }
    IN  /\ d \notin unresolvable
        /\ \E mp \in prefixes :
             /\ \A o \in prefixes : Len(o) <= Len(mp)
             /\ mount_info[mp] \in SKIP_FS_TYPES

\* ------------------------------------------------------------------- C1
\* C1: a run that completes without write failure or interruption writes
\* exactly the K appended records, once each and in order, as floor(K/N)
\* batches of N records followed by one batch of K mod N when that is not 0.
C1_BatchedOutput ==
    CleanReturn =>
        LET K == Len(appended)
            N == chunk_size
        IN  /\ Rows = appended
            /\ Len(output) = (K \div N) + (IF K % N = 0 THEN 0 ELSE 1)
            /\ \A i \in 1..Len(output) :
                 Len(output[i]) = IF i <= K \div N THEN N ELSE K % N

C1_Witness ==
    /\ CleanReturn
    /\ chunk_size = 2
    /\ Len(appended) = 5
    /\ Len(output) = 3
    /\ Len(output[1]) = 2 /\ Len(output[2]) = 2 /\ Len(output[3]) = 1

\* ------------------------------------------------------------------- C2
\* C2: the buffer never holds more than chunk_size records.
C2_BufferBounded == Len(buffer) <= chunk_size

\* ------------------------------------------------------------------- C3
\* C3: once a batch write or its flush has failed, no record is appended
\* or written any more and the run does not end with the status of success.
C3_WriteFailureIsFatal ==
    [][ writeFailures > 0 =>
          /\ appended' = appended
          /\ output' = output
          /\ pc' \notin {"viz", "report"}
          /\ (pc' = "exit" => exitStatus' # 0) ]_vars

\* ------------------------------------------------------------------- C4
\* C4: after an interrupt during the walk the rows of the output are
\* exactly the records appended so far, each once and in order.
C4_InterruptKeepsPrefix ==
    (Returned /\ interrupted = "walk" /\ writeFailures = 0) => Rows = appended

\* ------------------------------------------------------------------- C5
\* C5: after an interrupt during the walk the program neither goes on to
\* the visualization or the final report nor exits with status 0.
C5_CancelIsNotSuccess ==
    interrupted = "walk" =>
        /\ pc \notin {"viz", "report"}
        /\ (pc = "exit" => exitStatus # 0)

\* ------------------------------------------------------------------- C6
\* C6: no record is appended or written for a file in the subtree of a
\* directory whose longest prefix mount point has an excluded type.
C6_NoRecordUnderExcludedMount ==
    LET rows == Rows
        seen == { appended[i] : i \in 1..Len(appended) }
                  \cup { rows[i] : i \in 1..Len(rows) }
    IN  seen # {} =>
            LET excluded == { d \in Dirs : ExcludedDir(d) }
            IN  \A f \in Files :
                    (\E d \in excluded : Under(f, d)) => Record(f) \notin seen

\* /n is excluded, a scannable filesystem is mounted on /n/x below it, and
\* the walk has finished and recorded files elsewhere
C6_Witness ==
    /\ Returned
    /\ ExcludedDir(<<"n">>)
    /\ PathStr(<<"n", "x">>) \in DOMAIN mount_info
    /\ ~ ExcludedDir(<<"n", "x">>)
    /\ nonRegular = {} /\ lstatFails = {} /\ unresolvable = {}
    /\ Rows # << >>

\* ------------------------------------------------------------------- C7
\* C7 as stated: a path that cannot be resolved gets no record, and a run
\* whose mount table cannot be read records no file.
C7_FailSafe ==
    /\ \A f \in Files :
         f \in unresolvable => Occurrences(appended, Record(f)) = 0
    /\ ~ mountsReadable => appended = << >>

\* C7 as amended: a path that cannot be resolved is classified Excluded, and
\* no record is appended for it or below it; with an unreadable mount table
\* every path that resolves is classified Scannable, and a walk that
\* completes records every regular file it can stat and resolve.
C7_FailSafeOnResolutionOnly ==
    /\ \A p \in Dirs \cup Files :
         p \in unresolvable => should_skip_path(PathStr(p), mount_info)
    /\ \A f \in Files :
         (f \in unresolvable \/ \E d \in unresolvable : Under(f, d))
            => Occurrences(appended, Record(f)) = 0
    /\ (MountsTaken /\ ~ mountsReadable) =>
         \A p \in (Dirs \cup Files) \ unresolvable :
            ~ should_skip_path(PathStr(p), mount_info)
    /\ (CleanReturn /\ ~ mountsReadable) =>
         \A f \in Files :
            ( /\ f \notin lstatFails
              /\ f \notin nonRegular
              /\ f \notin unresolvable
              /\ ~ \E d \in unresolvable : Under(f, d) )
            => Occurrences(Rows, Record(f)) = 1

C7_Witness ==
    /\ CleanReturn
    /\ ~ mountsReadable
    /\ unresolvable = { <<"a", "b", "f2">> }
    /\ Len(Rows) = 4

\* ------------------------------------------------------------------- C8
\* C8: an entry whose lstat fails gets no record, and in a walk that
\* completes every other accepted file has exactly one row.
C8_EntryErrorSkipsOneEntry ==
    /\ \A f \in lstatFails :
         /\ Occurrences(appended, Record(f)) = 0
         /\ Occurrences(Rows, Record(f)) = 0
    /\ CleanReturn =>
         \A f \in Files : Accepted(f) => Occurrences(Rows, Record(f)) = 1

\* the second file of the walk fails; one file before it and three after
\* it are in the output
C8_Witness ==
    /\ CleanReturn
    /\ lstatFails = { <<"a", "b", "f2">> }
    /\ Len(Rows) = 4
    /\ Rows[1] = Record(<<"a", "f1">>)
    /\ Rows[4] = Record(<<"nd", "f5">>)

\* ------------------------------------------------------------------- C9
\* the sizes of the accepted files below d
SubtreeSize(d) ==
    LET below == { f \in Files : Under(f, d) /\ Accepted(f) }
        Sum[S \in SUBSET below] ==
            IF S = {} THEN 0
            ELSE LET f == CHOOSE x \in S : TRUE
                 IN  SizeOf(f) + Sum[S \ {f}]
    IN  Sum[below]

\* the rows for files below d
RowsBelow(d) ==
    SelectSeq(Rows, LAMBDA r : \E f \in Files : Under(f, d) /\ r.path = PathStr(f))

\* C9 as stated: after a full walk the output has, for every directory
\* visited, a row with that directory's path and the size of its subtree.
C9_DirectoryRecords ==
    CleanReturn =>
        \A d \in Dirs :
            Visited(d) =>
                \E i \in 1..Len(Rows) :
                    /\ Rows[i].path = PathStr(d)
                    /\ Rows[i].size_bytes = SubtreeSize(d)

\* C9 as amended: after a full walk the output has no row for a directory;
\* the size_bytes of the rows below a directory add up to the sizes of the
\* accepted files of its subtree, each counted once.
C9_FileRowsAddUp ==
    CleanReturn =>
        /\ \A i \in 1..Len(Rows) : \A d \in Dirs : Rows[i].path # PathStr(d)
        /\ \A d \in Dirs : SumSizes(RowsBelow(d)) = SubtreeSize(d)

\* the fixture: a = 150, b = 50, root = 150, nothing from the excluded /n
C9_Witness ==
    /\ CleanReturn
    /\ ExcludedDir(<<"n">>)
    /\ nonRegular = {} /\ lstatFails = {} /\ unresolvable = {}
    /\ SumSizes(RowsBelow(<<"a">>)) = 150
    /\ SumSizes(RowsBelow(<<"a", "b">>)) = 50
    /\ SumSizes(RowsBelow(Root)) = 150
    /\ SumSizes(RowsBelow(<<"n">>)) = 0

\* ------------------------------------------------------------------ C10
\* mount point mp is the path of p or of one of p's ancestor directories,
\* compared name by name
MountContains(mp, p) ==
    \E q \in Dirs \cup Files : PathStr(q) = mp /\ (q = p \/ Under(p, q))

\* C10: a readable regular file that no excluded mount contains, and whose
\* containing mount is scannable, is classified scannable and recorded.
C10_ContainingMountDecides ==
    CleanReturn =>
        \A f \in Files :
            ( /\ f \notin lstatFails
              /\ f \notin nonRegular
              /\ f \notin unresolvable
              /\ ~ \E d \in unresolvable : Under(f, d)
              /\ \E mp \in DOMAIN mount_info :
                    MountContains(mp, f) /\ mount_info[mp] \notin SKIP_FS_TYPES
              /\ ~ \E mp \in DOMAIN mount_info :
                    MountContains(mp, f) /\ mount_info[mp] \in SKIP_FS_TYPES )
            => /\ ~ should_skip_path(PathStr(f), mount_info)
               /\ Occurrences(Rows, Record(f)) = 1

=============================================================================
